---- MODULE Spec2Model ----
(***************************************************************************)
(* Model of the correlation / severity-classification engine, the Incident *)
(* lifecycle and the seven-stage monitoring cycle of the monitoring agent. *)
(*                                                                         *)
(* Scores are integers in hundredths (0.95 is 95).  Strings that the code  *)
(* searches (descriptions, keywords) are sequences of tokens in which the  *)
(* blank is a token of its own, so that " ".join and the substring test    *)
(* `kw in all_text` keep their behaviour at word granularity.              *)
(***************************************************************************)
EXTENDS Integers, Sequences, FiniteSets, TLC

VARIABLES
    analyzed_in,     \* SpecGroup: the list handed to _group_into_incidents
    groups_out,      \* SpecGroup: its result, groups of positions of analyzed_in
    gphase,          \* SpecGroup: "input" | "grouped" | "created"
    incidents_out,   \* SpecGroup: the incidents created from the groups
    grp,             \* SpecClassify: one group of analyzed events
    use_ai,          \* SpecClassify: SeverityClassifier.use_ai
    cls,             \* SpecClassify: outcome of classify() for grp
    mrg,             \* SpecMerge: arguments and results of _more_severe
    anl,             \* SpecAnalyze: events, replies and result of analyze_events
    runs,            \* SpecCycles: the calls of run() in progress, per caller
    clients,         \* SpecCycles: the client handles created on the shared agent
    rul,             \* SpecRules: score, category and the steps of the rules
    inc,             \* SpecIncident: one Incident object
    now,             \* SpecIncident: the clock read by datetime.now()
    flags,           \* SpecIncident: the answers of the object's predicates
    pc,              \* Spec: position of run() in the workflow graph
    state,           \* Spec: the AgentState channels of the running cycle
    summary,         \* Spec: the value returned by run()
    trace,           \* Spec: the nodes executed so far in this cycle
    offers,          \* Spec: incidents handed to each per-incident collaborator
    raised,          \* Spec: the stage-level collaborator calls that raised
    answers          \* Spec: what the collaborators answered in this cycle

vars == <<analyzed_in, groups_out, gphase, incidents_out, grp, use_ai, cls, mrg, anl,
          runs, clients, rul, inc, now, flags,
          pc, state, summary, trace, offers, raised, answers>>

groupVars == <<analyzed_in, groups_out, gphase, incidents_out>>
classifyVars == <<grp, use_ai, cls>>
incidentVars == <<inc, now, flags>>
cycleVars == <<pc, state, summary, trace, offers, raised, answers>>

(***************************************************************************)
(* Bounds of the model.                                                    *)
(***************************************************************************)
MaxAssessments == 2
MaxGroup == 2
MaxEvents == 2
MaxClock == 3

None == "<None>"
NoKey == "<absent>"

(***************************************************************************)
(* models/events.py: the enumerations.                                     *)
(***************************************************************************)
Priority == {"P1", "P2", "P3", "P4", "P5", "P6"}

IncidentStatus == {"detected", "analyzing", "classified", "ticket_created",
                   "notified", "resolved", "closed"}

IncidentCategory == {"performance", "availability", "error_rate",
                     "resource_exhaustion", "security", "configuration",
                     "capacity", "unknown"}

Min(S) == CHOOSE x \in S : \A y \in S : x <= y
Max(S) == CHOOSE x \in S : \A y \in S : x >= y

Range(s) == {s[i] : i \in 1..Len(s)}

RECURSIVE Flatten(_)
Flatten(ss) == IF ss = <<>> THEN <<>> ELSE Head(ss) \o Flatten(Tail(ss))

SeqsUpTo(D, n) == UNION {[1..k -> D] : k \in 0..n}

\* The variables of a specification that is not the one being run.
IdleGroup == /\ analyzed_in = <<>> /\ groups_out = <<>> /\ gphase = "off"
             /\ incidents_out = <<>>
IdleClassify == grp = <<>> /\ use_ai = FALSE /\ cls = "off"
IdleMerge == mrg = "off"
IdleAnalyze == anl = "off"
IdleCycles == runs = "off" /\ clients = "off"
IdleRules == rul = "off"
IdleIncident == inc = "off" /\ now = 0 /\ flags = <<>>
IdleCycle == /\ pc = "off" /\ state = "off" /\ summary = "off"
             /\ trace = <<>> /\ offers = "off" /\ raised = {}
             /\ answers = "off"

(***************************************************************************)
(* SeverityClassifier._more_severe                                         *)
(***************************************************************************)
order == <<"P1", "P2", "P3", "P4", "P5", "P6">>

index(p) == CHOOSE i \in 1..Len(order) : order[i] = p

more_severe_first(p1, p2) == p1

more_severe(p1, p2) == IF index(p1) < index(p2) THEN p1 ELSE p2

(***************************************************************************)
(* SeverityClassifier._group_into_incidents                                *)
(*                                                                         *)
(* An analyzed event is a record                                           *)
(*   [event |-> [event_id, resource_id, description], anomaly_score,       *)
(*    category, is_anomaly]                                                *)
(* where is_anomaly is "True", "False" or NoKey (no such key in the dict) *)
(* and event.resource_id is a string, None, or NoKey.                      *)
(***************************************************************************)

\* e.get("is_anomaly", False) or (e.get("anomaly_score") and score >= 0.5);
\* an AnomalyScore object is always truthy.
IsPromotedStrict(e) == e.is_anomaly = "True" \/ e.anomaly_score > 50

IsPromoted(e) == e.is_anomaly = "True" \/ e.anomaly_score >= 50

\* str() as applied by the f-string to the resource: None prints as "None".
Str(r) == IF r = None THEN "None" ELSE r

\* event.get("event", {}).get("resource_id", "unknown"): the default is used
\* only when the key is absent; a key holding None yields None.
GetResource(e) == IF e.event.resource_id = NoKey THEN "unknown"
                  ELSE e.event.resource_id

\* key = f"{category.value}:{resource}".  No category value contains ":",
\* so the string determines, and is determined by, this pair.
GroupKey(e) == <<e.category, Str(GetResource(e))>>

\* One pass of the loop over `anomalies`; groups is the dict's values in
\* insertion order, keys the dict's keys in the same order.
RECURSIVE GroupLoop(_, _, _, _)
GroupLoop(analyzed, todo, keys, groups) ==
    IF todo = <<>> THEN groups
    ELSE LET i == Head(todo)
             key == GroupKey(analyzed[i])
             hit == {k \in 1..Len(keys) : keys[k] = key}
         IN  IF hit = {}
             THEN GroupLoop(analyzed, Tail(todo), Append(keys, key),
                            Append(groups, <<i>>))
             ELSE LET k == CHOOSE k \in hit : TRUE
                  IN  GroupLoop(analyzed, Tail(todo), keys,
                                [groups EXCEPT ![k] = Append(@, i)])

\* The result lists positions of `analyzed`; the code's groups hold the very
\* dict objects at those positions.
group_into_incidents(analyzed) ==
    LET anomalies == SelectSeq([i \in 1..Len(analyzed) |-> i],
                               LAMBDA i : IsPromoted(analyzed[i]))
    IN  IF anomalies = <<>> THEN <<>>
        ELSE GroupLoop(analyzed, anomalies, <<>>, <<>>)

GroupMembers(analyzed, g) == [k \in 1..Len(g) |-> analyzed[g[k]]]

(***************************************************************************)
(* SeverityClassifier.__init__: the default classification_rules.  A dict  *)
(* is the sequence of its items in insertion order.                        *)
(***************************************************************************)
anomaly_thresholds == <<<<"P1", 95>>, <<"P2", 85>>, <<"P3", 70>>,
                        <<"P4", 50>>, <<"P5", 30>>, <<"P6", 0>>>>

category_weights ==
    [c \in IncidentCategory \ {"unknown"} |->
        CASE c = "availability"        -> <<<<"P1", 30>>, <<"P2", 20>>>>
          [] c = "security"            -> <<<<"P1", 40>>, <<"P2", 30>>>>
          [] c = "error_rate"          -> <<<<"P2", 20>>, <<"P3", 20>>>>
          [] c = "performance"         -> <<<<"P3", 30>>, <<"P4", 20>>>>
          [] c = "resource_exhaustion" -> <<<<"P2", 30>>, <<"P3", 20>>>>
          [] c = "configuration"       -> <<<<"P4", 30>>, <<"P5", 20>>>>
          [] c = "capacity"            -> <<<<"P3", 20>>, <<"P4", 20>>>>]

SP == " "

keywords ==
    <<<<"P1", <<<<"production", SP, "down">>, <<"outage">>, <<"data", SP, "loss">>,
               <<"security", SP, "breach">>, <<"critical", SP, "failure">>>>>>,
      <<"P2", <<<<"degraded">>, <<"major", SP, "impact">>, <<"significant">>,
               <<"urgent">>>>>>,
      <<"P3", <<<<"partial">>, <<"minor", SP, "impact">>, <<"workaround">>>>>>,
      <<"P4", <<<<"low", SP, "impact">>, <<"non-critical">>>>>>,
      <<"P5", <<<<"informational">>, <<"warning">>>>>>,
      <<"P6", <<<<"cosmetic">>, <<"trivial">>>>>>>>

\* dict lookup by key in a sequence of items.
Lookup(items, key) == items[CHOOSE i \in 1..Len(items) : items[i][1] = key][2]

\* sorted(thresholds.items()): the keys are "P1".."P6", whose string order is
\* their position in `order`.
RECURSIVE SortedItems(_)
SortedItems(items) ==
    IF items = <<>> THEN <<>>
    ELSE LET m == CHOOSE i \in 1..Len(items) :
                    \A j \in 1..Len(items) : index(items[i][1]) <= index(items[j][1])
         IN  <<items[m]>> \o SortedItems(SubSeq(items, 1, m - 1) \o
                                         SubSeq(items, m + 1, Len(items)))

\* str.lower() on the tokens the model uses.
LowerToken(t) == CASE t = "Degraded" -> "degraded"
                   [] t = "OUTAGE"   -> "outage"
                   [] OTHER          -> t

Lower(text) == [i \in 1..Len(text) |-> LowerToken(text[i])]

\* " ".join(texts)
RECURSIVE Join(_)
Join(texts) == IF texts = <<>> THEN <<>>
               ELSE IF Len(texts) = 1 THEN texts[1]
               ELSE texts[1] \o <<SP>> \o Join(Tail(texts))

\* kw in all_text
Contains(text, kw) == \E i \in 0..(Len(text) - Len(kw)) :
                          SubSeq(text, i + 1, i + Len(kw)) = kw

\* The first item of a dict iteration that satisfies Test, or `none`.
FirstItem(items, Test(_), none) ==
    LET hits == {i \in 1..Len(items) : Test(items[i])}
    IN  IF hits = {} THEN none ELSE items[Min(hits)]

\* max(set(categories), key=categories.count).  Among categories of equal
\* count the set's iteration order decides; the groups that classify() passes
\* hold one category only (it is part of the grouping key), so no tie arises.
primary_category(categories) ==
    CHOOSE c \in Range(categories) :
        \A d \in Range(categories) :
            Cardinality({i \in 1..Len(categories) : categories[i] = c}) >=
            Cardinality({i \in 1..Len(categories) : categories[i] = d})

\* Lines 167-174: the first threshold, in sorted key order, that max_score reaches.
sorted_thresholds == SortedItems(anomaly_thresholds)

\* A table whose thresholds are reached only by scores above them.
threshold_priority_strict(max_score) ==
    LET hit == FirstItem(sorted_thresholds,
                         LAMBDA it : max_score > it[2], <<"P6", 0>>)
    IN  hit[1]

threshold_priority(max_score) ==
    LET hit == FirstItem(sorted_thresholds,
                         LAMBDA it : max_score >= it[2], <<"P6", 0>>)
    IN  hit[1]

\* Lines 176-184: the first weight entry whose lowered threshold max_score reaches.
category_priority(base_priority, primary, max_score) ==
    IF primary \in DOMAIN category_weights
    THEN LET hit == FirstItem(category_weights[primary],
                      LAMBDA it : max_score >= Lookup(anomaly_thresholds, it[1]) - it[2],
                      <<>>)
         IN  IF hit = <<>> THEN base_priority ELSE more_severe(base_priority, hit[1])
    ELSE base_priority

keyword_priority_replaces(base_priority, all_text) ==
    LET hit == FirstItem(keywords,
                         LAMBDA it : \E k \in 1..Len(it[2]) : Contains(all_text, it[2][k]),
                         <<>>)
    IN  IF hit = <<>> THEN base_priority ELSE hit[1]

\* Lines 186-197: the first keyword list, in dict order, with a match.
keyword_priority(base_priority, all_text) ==
    LET hit == FirstItem(keywords,
                         LAMBDA it : \E k \in 1..Len(it[2]) : Contains(all_text, it[2][k]),
                         <<>>)
    IN  IF hit = <<>> THEN base_priority ELSE more_severe(base_priority, hit[1])

rule_based_lowest_score(events) ==
    LET max_score == Min({events[i].anomaly_score : i \in 1..Len(events)})
        primary == primary_category([i \in 1..Len(events) |-> events[i].category])
        all_text == Join([i \in 1..Len(events) |-> Lower(events[i].event.description)])
    IN  keyword_priority(
            category_priority(threshold_priority(max_score), primary, max_score),
            all_text)

rule_based_classification(events) ==
    IF events = <<>> THEN "P6"
    ELSE LET max_score == Max({events[i].anomaly_score : i \in 1..Len(events)})
             primary == primary_category([i \in 1..Len(events) |-> events[i].category])
             all_text == Join([i \in 1..Len(events) |->
                                  Lower(events[i].event.description)])
         IN  keyword_priority(
                 category_priority(threshold_priority(max_score), primary, max_score),
                 all_text)

(***************************************************************************)
(* SpecRules: the first two steps of _rule_based_classification for every  *)
(* maximum score (in hundredths) and every primary category.               *)
(***************************************************************************)
Scores == 0..100

InitRules ==
    /\ rul \in {[phase |-> "input", max_score |-> s, primary |-> c,
                  base |-> "P6", weighted |-> "P6"] :
                    s \in Scores, c \in IncidentCategory}
    /\ IdleGroup /\ IdleClassify /\ IdleMerge /\ IdleAnalyze /\ IdleCycles
    /\ IdleIncident /\ IdleCycle

ApplyRules ==
    /\ rul.phase = "input"
    /\ rul' = [rul EXCEPT
                 !.phase = "done",
                 !.base = threshold_priority(rul.max_score),
                 !.weighted = category_priority(threshold_priority(rul.max_score),
                                                rul.primary, rul.max_score)]
    /\ UNCHANGED <<groupVars, classifyVars, mrg, anl, runs, clients, incidentVars,
                   cycleVars>>

NextRules == ApplyRules

SpecRules == InitRules /\ [][NextRules]_vars

\* _ai_classification: the reply of the model is a priority label, or the
\* call fails: invoke_model raises, the text is no JSON, the JSON has no
\* "priority" key (the default "P4" applies), or the label is no Priority.
\* Every failure is caught inside and yields P4.
AIResponses == Priority \cup {"raise", "bad_json", "no_priority", "bad_label"}

\* An AI opinion that weighs nothing when the call fails.
ai_classification_silent(response) == IF response \in Priority THEN response ELSE "P6"

ai_classification(response) == IF response \in Priority THEN response ELSE "P4"

\* classify(), lines 105-117: the priority after the optional AI refinement.
refine_ai_only(use, rule, ai) == IF use THEN ai ELSE rule

refine(use, rule, ai) == IF use THEN more_severe(rule, ai) ELSE rule

(***************************************************************************)
(* models/events.py: the Incident object and its operations.  `t` is the   *)
(* value datetime.now() returns at the call.                               *)
(***************************************************************************)
is_high_priority(i) == i.priority \in {"P1", "P2", "P3"}

is_low_priority_from_P3(i) == i.priority \in {"P3", "P4", "P5", "P6"}

is_low_priority(i) == i.priority \in {"P4", "P5", "P6"}

should_auto_close_any(i) == TRUE

should_auto_close(i) == is_low_priority(i)

update_status(i, status, t) == [i EXCEPT !.status = status, !.last_updated = t]

\* A set_ticket that records the auto-close of a low priority incident as
\* its status.
set_ticket_closes(i, key, url, t) ==
    update_status([i EXCEPT !.jira_ticket_key = key, !.jira_ticket_url = url],
                  IF i.priority \in {"P4", "P5", "P6"} THEN "closed"
                  ELSE "ticket_created", t)

set_ticket(i, key, url, t) ==
    update_status([i EXCEPT !.jira_ticket_key = key, !.jira_ticket_url = url],
                  "ticket_created", t)

\* resolved_at, an Optional[datetime], is a sequence of at most one time.
resolve(i, resolution, t) ==
    LET r == update_status([i EXCEPT !.resolved_at = <<t>>], "resolved", t)
    IN  IF resolution # None THEN [r EXCEPT !.resolution = resolution] ELSE r

\* generate_incident_id: a hash of the first five event ids and the time of
\* the call, kept here as the hashed content itself.
generate_incident_id(events, t) ==
    [content |-> [k \in 1..Min({5, Len(events)}) |-> events[k].event_id],
     timestamp |-> t]

\* SeverityClassifier._create_incident, for the fields the model follows.
create_incident(events, priority, t) ==
    LET source_events == [k \in 1..Len(events) |-> events[k].event]
        scores == [k \in 1..Len(events) |-> events[k].anomaly_score]
        best == Min({k \in 1..Len(events) :
                        \A j \in 1..Len(events) : scores[k] >= scores[j]})
    IN  [incident_id        |-> generate_incident_id(source_events, t),
         priority           |-> priority,
         category           |-> primary_category(
                                    [k \in 1..Len(events) |-> events[k].category]),
         status             |-> "classified",
         detected_at        |-> t,
         last_updated       |-> t,
         resolved_at        |-> <<>>,
         resolution         |-> None,
         source_events      |-> source_events,
         event_count        |-> Len(events),
         affected_resources |-> {source_events[k].resource_id :
                                    k \in 1..Len(events)} \ {None, NoKey, ""},
         anomaly_score      |-> scores[best],
         jira_ticket_key    |-> None,
         jira_ticket_url    |-> None,
         notifications_sent |-> <<>>]

(***************************************************************************)
(* SpecClassify: classify() on one group, as _group_into_incidents hands   *)
(* it over: a non-empty list of promoted entries of one category and one   *)
(* resource.                                                               *)
(***************************************************************************)
\* The order P1 < P2 < ... < P6 as the claim states it.
ClaimRank(p) == CASE p = "P1" -> 1 [] p = "P2" -> 2 [] p = "P3" -> 3
                  [] p = "P4" -> 4 [] p = "P5" -> 5 [] p = "P6" -> 6

ClassifyScores == {10, 40, 60, 75, 90, 97}

\* "production" holds no keyword, "down Degraded" the P2 keyword "degraded";
\* joined in this order they read "production down degraded" (P1 and P2).
ClassifyDescriptions == {<<"production">>, <<"down", SP, "Degraded">>}

ClassifyGroups ==
    {[k \in 1..Len(m) |->
        [event |-> [event_id |-> k, resource_id |-> "i-123",
                    description |-> m[k][2]],
         anomaly_score |-> m[k][1], category |-> c, is_anomaly |-> "True"]] :
      c \in IncidentCategory,
      m \in SeqsUpTo(ClassifyScores \X ClassifyDescriptions, MaxGroup) \ {<<>>}}

InitClassify ==
    /\ grp \in ClassifyGroups
    /\ use_ai \in BOOLEAN
    /\ cls = [phase |-> "input", rule |-> "P6", response |-> "unused",
              ai |-> "unused", incident |-> <<>>]
    /\ IdleGroup /\ IdleMerge /\ IdleAnalyze /\ IdleCycles /\ IdleRules /\ IdleIncident /\ IdleCycle

\* One pass of the loop of classify() over the group.
Classify ==
    /\ cls.phase = "input"
    /\ \E response \in IF use_ai THEN AIResponses ELSE {"unused"} :
          LET rule == rule_based_classification(grp)
              ai == IF use_ai THEN ai_classification(response) ELSE "unused"
          IN  cls' = [phase |-> "done", rule |-> rule, response |-> response,
                      ai |-> ai,
                      incident |-> create_incident(grp, refine(use_ai, rule, ai), 0)]
    /\ UNCHANGED <<grp, use_ai, groupVars, mrg, anl, runs, clients, rul, incidentVars, cycleVars>>

NextClassify == Classify

SpecClassify == InitClassify /\ [][NextClassify]_vars

\* C3: when an AI opinion was obtained, the incident's priority is the more
\* severe (lower index) of the rule-based priority and the AI priority.
C3_PriorityIsMoreSevere ==
    (cls.phase = "done" /\ use_ai) =>
        /\ cls.incident.priority \in {cls.rule, cls.ai}
        /\ index(cls.incident.priority) = Min({index(cls.rule), index(cls.ai)})
        /\ (cls.response \in Priority => cls.ai = cls.response)

\* C3 witness: a classified group whose AI opinion is more severe than the
\* rule-based one, and the incident carries the AI opinion.
C3_Witness ==
    /\ cls.phase = "done" /\ use_ai
    /\ cls.response \in Priority
    /\ index(cls.ai) < index(cls.rule)
    /\ cls.incident.priority = cls.ai

MaxScore(events) == Max({events[k].anomaly_score : k \in 1..Len(events)})

\* The group with the score of member k replaced by s.
WithScore(events, k, s) == [events EXCEPT ![k].anomaly_score = s]

\* C4: with categories and descriptions held fixed, a group whose maximum
\* score is at least that of the classified group gets a rule-based priority
\* at least as severe.  It is stated where the rule-based opinion alone
\* decides (use_ai is off); replacing one score at a time reaches every
\* group of the same categories and descriptions.
C4_RuleMonotonic ==
    (cls.phase = "done" /\ ~use_ai) =>
        \A k \in 1..Len(grp), s \in ClassifyScores :
            MaxScore(WithScore(grp, k, s)) >= MaxScore(grp) =>
                index(rule_based_classification(WithScore(grp, k, s))) <= index(cls.rule)

\* C4 witness: a classified group for which raising one score makes the
\* rule-based priority strictly more severe.
C4_Witness ==
    /\ cls.phase = "done" /\ ~use_ai
    /\ cls.incident.priority = cls.rule
    /\ Len(grp) > 1
    /\ \E k \in 1..Len(grp), s \in ClassifyScores :
          /\ MaxScore(WithScore(grp, k, s)) > MaxScore(grp)
          /\ index(rule_based_classification(WithScore(grp, k, s))) < index(cls.rule)

\* The joined lowercased descriptions of the classified group.
GroupText == Join([k \in 1..Len(grp) |-> Lower(grp[k].event.description)])

\* The severity ranks (1 for P1 .. 6 for P6) whose keyword list has a keyword
\* in the text.
KeywordRanks(text) ==
    {ClaimRank(keywords[n][1]) : n \in
        {m \in 1..Len(keywords) :
            \E k \in 1..Len(keywords[m][2]) : Contains(text, keywords[m][2][k])}}

\* The rule-based priority before the keyword step.
BeforeKeywords ==
    category_priority(threshold_priority(MaxScore(grp)), grp[1].category, MaxScore(grp))

\* C15: the most severe keyword list with a match in the joined lowercased
\* descriptions is the only one applied, and it can only escalate: the
\* rule-based priority is the more severe of the priority before the keyword
\* step and that list's priority; a P1 keyword gives P1 whatever the scores
\* and the category.
C15_KeywordOverride ==
    cls.phase = "done" =>
        /\ KeywordRanks(GroupText) = {} => cls.rule = BeforeKeywords
        /\ KeywordRanks(GroupText) # {} =>
              ClaimRank(cls.rule) =
                  Min({ClaimRank(BeforeKeywords), Min(KeywordRanks(GroupText))})
        /\ 1 \in KeywordRanks(GroupText) => cls.rule = "P1"

\* C15 witness: a group with score 0.4 whose joined descriptions read
\* "production down ...", classified P1 by the keyword alone, although a P2
\* keyword matches too.
C15_Witness ==
    /\ cls.phase = "done"
    /\ MaxScore(grp) = 40
    /\ {1, 2} \subseteq KeywordRanks(GroupText)
    /\ BeforeKeywords \notin {"P1", "P2"}
    /\ cls.rule = "P1"

\* C21: when the AI opinion fails for a group, the incident's final priority
\* is the group's rule-based priority.
C21_FailedOpinionLeavesRule ==
    (cls.phase = "done" /\ use_ai /\ cls.response \notin Priority) =>
        cls.incident.priority = cls.rule

(***************************************************************************)
(* SpecMerge: _more_severe applied to every pair of priorities, in both    *)
(* argument orders.                                                        *)
(***************************************************************************)
InitMerge ==
    /\ mrg \in [a : Priority, b : Priority, ab : {"unset"}, ba : {"unset"}]
    /\ IdleGroup /\ IdleClassify /\ IdleAnalyze /\ IdleCycles /\ IdleRules /\ IdleIncident /\ IdleCycle

MergeAB ==
    /\ mrg.ab = "unset"
    /\ mrg' = [mrg EXCEPT !.ab = more_severe(mrg.a, mrg.b)]
    /\ UNCHANGED <<groupVars, classifyVars, anl, runs, clients, rul, incidentVars, cycleVars>>

MergeBA ==
    /\ mrg.ba = "unset"
    /\ mrg' = [mrg EXCEPT !.ba = more_severe(mrg.b, mrg.a)]
    /\ UNCHANGED <<groupVars, classifyVars, anl, runs, clients, rul, incidentVars, cycleVars>>

NextMerge == MergeAB \/ MergeBA

SpecMerge == InitMerge /\ [][NextMerge]_vars

\* C5: _more_severe(a, b) = _more_severe(b, a), and the result is whichever
\* of a and b is lower in the order P1 < ... < P6.
C5_MergeCommutes ==
    /\ mrg.ab # "unset" =>
          /\ mrg.ab \in {mrg.a, mrg.b}
          /\ ClaimRank(mrg.ab) <= ClaimRank(mrg.a)
          /\ ClaimRank(mrg.ab) <= ClaimRank(mrg.b)
    /\ mrg.ba # "unset" =>
          /\ mrg.ba \in {mrg.a, mrg.b}
          /\ ClaimRank(mrg.ba) <= ClaimRank(mrg.a)
          /\ ClaimRank(mrg.ba) <= ClaimRank(mrg.b)
    /\ (mrg.ab # "unset" /\ mrg.ba # "unset") => mrg.ab = mrg.ba

\* C5 witness: both orders applied to two different priorities, the second
\* argument of the first call being the more severe.
C5_Witness ==
    /\ mrg.ab # "unset" /\ mrg.ba # "unset"
    /\ ClaimRank(mrg.b) < ClaimRank(mrg.a)
    /\ mrg.ab = mrg.b

(***************************************************************************)
(* SpecIncident: one Incident object under any sequence of its operations. *)
(* The object is constructed with the dataclass default status or, as      *)
(* _create_incident does, with status classified.  The clock may advance   *)
(* between two calls.                                                      *)
(***************************************************************************)
StatusOrder == <<"detected", "analyzing", "classified", "ticket_created",
                 "notified", "resolved", "closed">>

StatusIndex(s) == CHOOSE i \in 1..Len(StatusOrder) : StatusOrder[i] = s

NewIncident(priority, status) ==
    [create_incident(<<[event |-> [event_id |-> 1, resource_id |-> "i-123",
                                   description |-> <<>>],
                        anomaly_score |-> 60, category |-> "performance",
                        is_anomaly |-> "True"]>>, priority, 0)
        EXCEPT !.status = status]

InitIncident ==
    /\ \E p \in Priority, s \in {"detected", "classified"} : inc = NewIncident(p, s)
    /\ now = 0
    /\ flags = <<>>
    /\ IdleGroup /\ IdleClassify /\ IdleMerge /\ IdleAnalyze /\ IdleCycles /\ IdleRules /\ IdleCycle

Tick ==
    /\ now < MaxClock
    /\ now' = now + 1
    /\ UNCHANGED <<inc, flags, groupVars, classifyVars, mrg, anl, runs, clients, rul, cycleVars>>

UpdateStatus ==
    /\ \E s \in IncidentStatus : inc' = update_status(inc, s, now)
    /\ UNCHANGED <<now, flags, groupVars, classifyVars, mrg, anl, runs, clients, rul, cycleVars>>

SetTicket ==
    /\ \E key \in {"OPS-1"} : inc' = set_ticket(inc, key, "browse/OPS-1", now)
    /\ UNCHANGED <<now, flags, groupVars, classifyVars, mrg, anl, runs, clients, rul, cycleVars>>

Resolve ==
    /\ \E resolution \in {None, "fixed"} : inc' = resolve(inc, resolution, now)
    /\ UNCHANGED <<now, flags, groupVars, classifyVars, mrg, anl, runs, clients, rul, cycleVars>>

\* The three predicates asked of the object.
Inspect ==
    /\ flags' = <<[priority |-> inc.priority,
                   high |-> is_high_priority(inc),
                   low |-> is_low_priority(inc),
                   auto_close |-> should_auto_close(inc)]>>
    /\ UNCHANGED <<inc, now, groupVars, classifyVars, mrg, anl, runs, clients, rul, cycleVars>>

NextIncident == Tick \/ UpdateStatus \/ SetTicket \/ Resolve \/ Inspect

SpecIncident == InitIncident /\ [][NextIncident]_vars

\* C6: under any sequence of update_status, set_ticket and resolve calls the
\* index of the status in the lifecycle order never decreases.
C6_StatusNeverDecreases ==
    [][StatusIndex(inc'.status) >= StatusIndex(inc.status)]_vars

\* C12: for every priority, should_auto_close() is true exactly for P4, P5
\* and P6, and exactly one of is_high_priority() and is_low_priority() is
\* true.
C12_AutoCloseIsLowPriority ==
    flags # <<>> =>
        /\ flags[1].auto_close <=> flags[1].priority \in {"P4", "P5", "P6"}
        /\ flags[1].high <=> ~flags[1].low
        /\ flags[1].priority = inc.priority

\* C12 witness: the predicates asked of a P3 incident (not auto-closed) after
\* its status moved.
C12_Witness ==
    /\ flags # <<>>
    /\ flags[1].priority = "P3" /\ ~flags[1].auto_close /\ flags[1].high
    /\ inc.status = "resolved"

\* C22: in every state reachable by Incident operations, status
\* ticket_created implies a recorded ticket key and url, and status resolved
\* implies resolved_at is set.
C22_StatusCarriesItsData ==
    /\ inc.status = "ticket_created" =>
          inc.jira_ticket_key # None /\ inc.jira_ticket_url # None
    /\ inc.status = "resolved" => inc.resolved_at # <<>>

(***************************************************************************)
(* collectors/base.py, collectors/__init__.py: events and their collection *)
(***************************************************************************)
to_dict(e) == [event_id |-> e.event_id, event_type |-> e.event_type,
               resource_id |-> e.resource_id, description |-> e.description]

\* The collectors in the order of CollectorManager.collectors.
Collectors == <<"alarms", "metrics", "logs", "insights">>

\* CollectorManager.collect_all: a collector whose collect() raises is
\* skipped, the others' events are concatenated in collector order.
\* `got` maps each collector to [raised, events]: whether its collect()
\* raised, and the list it returned otherwise.
collect_all(got) ==
    Flatten([k \in 1..Len(Collectors) |->
                IF got[Collectors[k]].raised THEN <<>> ELSE got[Collectors[k]].events])

(***************************************************************************)
(* processors/anomaly.py: AnomalyDetector.analyze_events                   *)
(***************************************************************************)
RECURSIVE Dedupe(_)
Dedupe(s) == IF s = <<>> THEN <<>>
             ELSE LET r == Dedupe(SubSeq(s, 1, Len(s) - 1))
                  IN  IF s[Len(s)] \in Range(r) THEN r ELSE Append(r, s[Len(s)])

\* _group_events: the event types in order of first appearance.
group_events_types(events) == Dedupe([k \in 1..Len(events) |-> events[k].event_type])

\* A default entry whose score stays below the correlation threshold.
default_on_error_low(event) ==
    [event |-> to_dict(event), anomaly_score |-> 49, confidence |-> 30,
     category |-> "unknown", is_anomaly |-> NoKey]

\* The default entry of the except branch of analyze_events: score 0.5,
\* confidence 0.3, category UNKNOWN, and no is_anomaly key.
default_on_error(event) ==
    [event |-> to_dict(event), anomaly_score |-> 50, confidence |-> 30,
     category |-> "unknown", is_anomaly |-> NoKey]

\* The default entry of _parse_analysis_response on a JSON decode error.
default_on_parse_failure(event) ==
    [event |-> to_dict(event), anomaly_score |-> 50, confidence |-> 30,
     category |-> "unknown", is_anomaly |-> "True"]

\* _parse_analysis_response for a reply that is JSON: one entry per analysis
\* whose event_id is the id of an event of the group (event_lookup keeps the
\* last event of an id).
parse_analyses(analyses, events) ==
    Flatten([k \in 1..Len(analyses) |->
        LET hits == {j \in 1..Len(events) : events[j].event_id = analyses[k].event_id}
        IN  IF hits = {} THEN <<>>
            ELSE <<[event |-> to_dict(events[Max(hits)]),
                    anomaly_score |-> analyses[k].anomaly_score,
                    confidence |-> analyses[k].confidence,
                    category |-> IF analyses[k].category \in IncidentCategory
                                 THEN analyses[k].category ELSE "unknown",
                    is_anomaly |-> analyses[k].is_anomaly]>>])

\* _analyze_event_group and the handler around it, for one event type.  The
\* reply is [kind, analyses]: kind "raise" when the call or the parsing
\* raises, "bad_json" when the text is no JSON, "ok" otherwise.
analyze_event_group(type_events, reply) ==
    CASE reply.kind = "raise" ->
            [k \in 1..Len(type_events) |-> default_on_error(type_events[k])]
      [] reply.kind = "bad_json" ->
            [k \in 1..Len(type_events) |-> default_on_parse_failure(type_events[k])]
      [] OTHER -> parse_analyses(reply.analyses, type_events)

analyze_events(events, replies) ==
    IF events = <<>> THEN <<>>
    ELSE LET types == group_events_types(events)
         IN  Flatten([k \in 1..Len(types) |->
                analyze_event_group(
                    SelectSeq(events, LAMBDA e : e.event_type = types[k]),
                    replies[types[k]])])

(***************************************************************************)
(* SpecAnalyze: analyze_events on its own.  The events come from a small   *)
(* catalogue (two alarms, one metric); the reply for each event type is a  *)
(* failure or a list of analyses that may omit an event, repeat an id or   *)
(* name an id that is not in the group.                                    *)
(***************************************************************************)
AnalyzedCatalogue ==
    {[event_id |-> "a1", event_type |-> "alarm", resource_id |-> "i-123",
      description |-> <<"production">>],
     [event_id |-> "a2", event_type |-> "alarm", resource_id |-> "i-456",
      description |-> <<>>],
     [event_id |-> "m1", event_type |-> "metric", resource_id |-> "i-123",
      description |-> <<>>]}

EventTypes(events) == {events[k].event_type : k \in 1..Len(events)}

OfType(events, ty) == SelectSeq(events, LAMBDA e : e.event_type = ty)

\* The verdict the assessing model gives in a listed analysis.
Verdict(id) == [event_id |-> id, is_anomaly |-> "True", anomaly_score |-> 90,
                confidence |-> 80, category |-> "performance"]

\* The replies for one type: the call raises, the text is no JSON, or it
\* lists up to one analysis more than the group has events.
LooseTypeReplies(type_events) ==
    LET ids == {type_events[k].event_id : k \in 1..Len(type_events)} \cup {"zz"}
    IN  {[kind |-> "raise", analyses |-> <<>>],
         [kind |-> "bad_json", analyses |-> <<>>]} \cup
        {[kind |-> "ok", analyses |-> [k \in 1..Len(pick) |-> Verdict(pick[k])]] :
            pick \in SeqsUpTo(ids, Len(type_events) + 1)}

InitAnalyze ==
    /\ anl \in {[phase |-> "input", events |-> es, replies |-> <<>>, out |-> <<>>] :
                  es \in SeqsUpTo(AnalyzedCatalogue, MaxEvents)}
    /\ IdleGroup /\ IdleClassify /\ IdleMerge /\ IdleCycles /\ IdleRules /\ IdleIncident
    /\ IdleCycle

AnalyzeEvents ==
    /\ anl.phase = "input"
    /\ \E r \in [EventTypes(anl.events) ->
                    UNION {LooseTypeReplies(OfType(anl.events, ty)) :
                              ty \in EventTypes(anl.events)}] :
          /\ \A ty \in EventTypes(anl.events) :
                r[ty] \in LooseTypeReplies(OfType(anl.events, ty))
          /\ anl' = [phase |-> "done", events |-> anl.events, replies |-> <<r>>,
                     out |-> analyze_events(anl.events, r)]
    /\ UNCHANGED <<groupVars, classifyVars, mrg, runs, clients, rul, incidentVars,
                   cycleVars>>

NextAnalyze == AnalyzeEvents

SpecAnalyze == InitAnalyze /\ [][NextAnalyze]_vars

\* The entries of the result that carry event e.
EntriesOf(e) == {k \in 1..Len(anl.out) : anl.out[k].event = to_dict(e)}

\* C17: when the assessment of an event-type group fails (the call raises or
\* the reply cannot be parsed), every event of the group gets a neutral
\* entry: score 0.5, confidence 0.3, is_anomaly true.
C17_NeutralOnFailure ==
    anl.phase = "done" =>
        \A j \in 1..Len(anl.events) :
            anl.replies[1][anl.events[j].event_type].kind \in {"raise", "bad_json"} =>
                /\ EntriesOf(anl.events[j]) # {}
                /\ \A k \in EntriesOf(anl.events[j]) :
                      /\ anl.out[k].anomaly_score = 50
                      /\ anl.out[k].confidence = 30
                      /\ anl.out[k].is_anomaly = "True"

\* C19: after analyze_events the result holds exactly one assessment for each
\* event given to it, whatever the reply lists: every event, fewer, or an id
\* more than once.
C19_OneAssessmentPerEvent ==
    anl.phase = "done" =>
        \A j \in 1..Len(anl.events) :
            Cardinality(EntriesOf(anl.events[j])) =
                Cardinality({i \in 1..Len(anl.events) : anl.events[i] = anl.events[j]})

(***************************************************************************)
(* SeverityClassifier.classify: one incident per group.  responses[g] is   *)
(* the AI reply for the g-th group.                                        *)
(***************************************************************************)
classify(analyzed_events, use, responses, t) ==
    LET incident_groups == group_into_incidents(analyzed_events)
    IN  [g \in 1..Len(incident_groups) |->
            LET group == GroupMembers(analyzed_events, incident_groups[g])
            IN  create_incident(group,
                    refine(use, rule_based_classification(group),
                           ai_classification(responses[g])), t)]

(***************************************************************************)
(* integrations: what the agent's per-incident collaborators do with one   *)
(* incident.  Each returns [result, incident, raised, calls]: the returned  *)
(* value (an Optional result is a sequence of at most one value), the      *)
(* incident object after the call, whether the call raised, and the        *)
(* requests made beyond the first (the close of a ticket, the sends).      *)
(***************************************************************************)

\* JiraIntegration.create_ticket.  outcome: "http_error" (the POST fails with
\* an httpx.HTTPError, caught: None), "raise" (any other exception before the
\* ticket is known), "created", and for an auto-closed incident
\* "comment_raise" and "close_raise" (_add_resolution_comment, or
\* _close_ticket, raises something other than httpx.HTTPError) and
\* "close_failed" (_close_ticket returns False: its request fails with an
\* httpx.HTTPError, no close transition is offered, or the transition is
\* answered with an error status).
TicketOutcomes(incident) ==
    {"http_error", "raise", "created"} \cup
    (IF should_auto_close(incident)
     THEN {"comment_raise", "close_raise", "close_failed"} ELSE {})

create_ticket(incident, outcome, key, url, t) ==
    CASE outcome = "http_error" ->
            [result |-> <<>>, incident |-> incident, raised |-> FALSE,
             calls |-> <<>>]
      [] outcome = "raise" ->
            [result |-> <<>>, incident |-> incident, raised |-> TRUE,
             calls |-> <<>>]
      [] OTHER ->
            LET ticketed == set_ticket(incident, key, url, t)
            IN  IF ~should_auto_close(ticketed)
                THEN [result |-> <<[key |-> key, url |-> url,
                                    auto_closed |-> should_auto_close(ticketed)]>>,
                      incident |-> ticketed, raised |-> FALSE, calls |-> <<>>]
                ELSE CASE outcome = "comment_raise" ->
                            [result |-> <<>>, incident |-> ticketed,
                             raised |-> TRUE, calls |-> <<>>]
                       [] outcome = "close_raise" ->
                            [result |-> <<>>, incident |-> ticketed,
                             raised |-> TRUE, calls |-> <<"close">>]
                       [] OTHER ->
                            [result |-> <<[key |-> key, url |-> url,
                                           auto_closed |-> should_auto_close(ticketed)]>>,
                             incident |-> ticketed, raised |-> FALSE,
                             calls |-> <<"close">>]

\* NotificationService.__init__: the default notification_rules.
notification_channels ==
    [p \in Priority |->
        CASE p \in {"P1", "P2"} -> <<"sns", "ses">>
          [] p \in {"P3", "P4"} -> <<"sns">>
          [] OTHER              -> <<>>]

\* NotificationService.notify with the service enabled and both channels
\* configured.  outcome: "sent" (every send succeeds), "failed" (every send
\* fails with a ClientError, caught: a result with success False), "raise"
\* (the first send raises anything else).  A send result is kept as "ok" or "failed".
NotifyOutcomes == {"sent", "failed", "raise"}

notify(incident, outcome, t) ==
    LET channels == notification_channels[incident.priority]
        sent == IF outcome = "sent" THEN "ok" ELSE "failed"
        results == [success |-> NoKey,
                    sns |-> IF "sns" \in Range(channels) THEN sent ELSE None,
                    ses |-> IF "ses" \in Range(channels) THEN sent ELSE None]
    IN  IF channels = <<>>
        THEN [result |-> [success |-> "True", sns |-> NoKey, ses |-> NoKey],
              incident |-> incident, raised |-> FALSE, calls |-> <<>>]
        ELSE IF outcome = "raise"
        THEN [result |-> results, incident |-> incident, raised |-> TRUE,
              calls |-> <<channels[1]>>]
        ELSE [result |-> results,
              incident |-> [incident EXCEPT !.notifications_sent =
                              Append(@, [channels |-> channels, results |-> results])],
              raised |-> FALSE, calls |-> channels]

\* Python truth of the values a notify result holds: a send result is a
\* non-empty dict, true whether the send succeeded or not.
Truthy(x) == x \notin {None, NoKey, "False"}

\* RAGRetriever.index_incident: True, False (no client, or an error caught
\* inside), or an exception (also one of incident.to_dict()).
StoreOutcomes == {"True", "False", "raise"}

(***************************************************************************)
(* agent.py: AgentState, its reducers, and the nodes of the workflow.      *)
(***************************************************************************)
initial_state ==
    [events |-> <<>>, analyzed_events |-> <<>>, incidents |-> <<>>,
     runbooks |-> <<>>, similar_incidents |-> <<>>,
     tickets_created |-> <<>>, notifications_sent |-> <<>>,
     incidents_stored |-> <<>>, error |-> None, current_step |-> "init"]

\* The channel update of the graph: a node returns the whole state; a key
\* annotated with the reducer `add` is set to old + returned, every other
\* key to the returned value.
apply_update(channels, returned) ==
    [returned EXCEPT
        !.tickets_created = channels.tickets_created \o returned.tickets_created,
        !.notifications_sent = channels.notifications_sent \o returned.notifications_sent,
        !.incidents_stored = channels.incidents_stored \o returned.incidents_stored]

\* _build_workflow: the entry point and the edges.
entry_point == "collect"

edge_swapped(node) ==
    CASE node = "collect"          -> "retrieve_context"
      [] node = "retrieve_context" -> "classify"
      [] node = "classify"         -> "analyze"
      [] node = "analyze"          -> "create_tickets"
      [] node = "create_tickets"   -> "notify"
      [] node = "notify"           -> "store"
      [] node = "store"            -> "END"

edge(node) ==
    CASE node = "collect"          -> "retrieve_context"
      [] node = "retrieve_context" -> "analyze"
      [] node = "analyze"          -> "classify"
      [] node = "classify"         -> "create_tickets"
      [] node = "create_tickets"   -> "notify"
      [] node = "notify"           -> "store"
      [] node = "store"            -> "END"

\* _collect_node.  outcome is [raised, events] of collect_all().
collect_node(st, outcome) ==
    LET s1 == [st EXCEPT !.current_step = "collect"]
    IN  IF outcome.raised
        THEN [s1 EXCEPT !.error = "Collection error", !.events = <<>>]
        ELSE [s1 EXCEPT !.events = outcome.events]

\* The except branch of _retrieve_context_node.
context_kept_on_error(st) == st

context_on_error(st) == [st EXCEPT !.runbooks = <<>>, !.similar_incidents = <<>>]

\* _retrieve_context_node.  outcome: "ok", or the search that raises.
retrieve_context_node(st, outcome) ==
    LET s1 == [st EXCEPT !.current_step = "retrieve_context"]
    IN  IF s1.events = <<>>
        THEN [s1 EXCEPT !.runbooks = <<>>, !.similar_incidents = <<>>]
        ELSE CASE outcome = "runbooks_raise" -> context_on_error(s1)
               [] outcome = "similar_raise" ->
                    context_on_error([s1 EXCEPT !.runbooks = <<"runbook">>])
               [] OTHER -> [s1 EXCEPT !.runbooks = <<"runbook">>,
                                      !.similar_incidents = <<"similar">>]

\* _analyze_node.  outcome is [raised, replies] of analyze_events().
analyze_node(st, outcome) ==
    LET s1 == [st EXCEPT !.current_step = "analyze"]
    IN  IF s1.events = <<>> THEN [s1 EXCEPT !.analyzed_events = <<>>]
        ELSE IF outcome.raised THEN [s1 EXCEPT !.analyzed_events = <<>>]
        ELSE [s1 EXCEPT !.analyzed_events = analyze_events(s1.events, outcome.replies)]

\* _classify_node.  outcome is [raised, responses] of classify(); the
\* classifier is configured with use_ai_classification at its default, True.
classify_node(st, outcome, t) ==
    LET s1 == [st EXCEPT !.current_step = "classify"]
    IN  IF s1.analyzed_events = <<>> THEN [s1 EXCEPT !.incidents = <<>>]
        ELSE IF outcome.raised THEN [s1 EXCEPT !.incidents = <<>>]
        ELSE [s1 EXCEPT !.incidents =
                classify(s1.analyzed_events, TRUE, outcome.responses, t)]

\* The name of the ticket the ticket system creates for the i-th request.
TicketKey(i) == CASE i = 1 -> "OPS-1" [] i = 2 -> "OPS-2" [] OTHER -> "OPS-3"

\* f"{base_url}/browse/{ticket_key}"
TicketUrl(i) == CASE i = 1 -> "/browse/OPS-1" [] i = 2 -> "/browse/OPS-2"
                  [] OTHER -> "/browse/OPS-3"

\* The loops of the three per-incident nodes.  acc is [out, incidents,
\* offered, calls, raised]: the node's result list, the incidents after the
\* calls made so far, what was handed to the collaborator, the further
\* requests it made (incident id and request), and the positions whose call
\* raised.  The try is inside the loop: an exception ends the pass for
\* one incident only.
RECURSIVE tickets_loop_abort(_, _, _, _, _)
tickets_loop_abort(incidents, outcomes, i, t, acc) ==
    IF i > Len(incidents) THEN acc
    ELSE LET r == create_ticket(incidents[i], outcomes[i], TicketKey(i), TicketUrl(i), t)
             entry == IF r.raised \/ r.result = <<>> THEN <<>>
                      ELSE <<[incident_id |-> incidents[i].incident_id,
                              ticket_key |-> r.result[1].key,
                              auto_closed |-> r.result[1].auto_closed]>>
             next == [out |-> acc.out \o entry,
                      incidents |-> [acc.incidents EXCEPT ![i] = r.incident],
                      offered |-> Append(acc.offered,
                                    [incident_id |-> incidents[i].incident_id,
                                     status |-> incidents[i].status,
                                     priority |-> incidents[i].priority]),
                      calls |-> acc.calls \o [k \in 1..Len(r.calls) |->
                                    <<incidents[i].incident_id, r.calls[k]>>],
                      raised |-> acc.raised \cup (IF r.raised THEN {i} ELSE {})]
         IN  IF r.raised THEN next
             ELSE tickets_loop_abort(incidents, outcomes, i + 1, t, next)

RECURSIVE tickets_loop(_, _, _, _, _)
tickets_loop(incidents, outcomes, i, t, acc) ==
    IF i > Len(incidents) THEN acc
    ELSE LET r == create_ticket(incidents[i], outcomes[i], TicketKey(i), TicketUrl(i), t)
             entry == IF r.raised \/ r.result = <<>> THEN <<>>
                      ELSE <<[incident_id |-> incidents[i].incident_id,
                              ticket_key |-> r.result[1].key,
                              auto_closed |-> r.result[1].auto_closed]>>
         IN  tickets_loop(incidents, outcomes, i + 1, t,
                [out |-> acc.out \o entry,
                 incidents |-> [acc.incidents EXCEPT ![i] = r.incident],
                 offered |-> Append(acc.offered,
                               [incident_id |-> incidents[i].incident_id,
                                status |-> incidents[i].status,
                                priority |-> incidents[i].priority]),
                 calls |-> acc.calls \o [k \in 1..Len(r.calls) |->
                               <<incidents[i].incident_id, r.calls[k]>>],
                 raised |-> acc.raised \cup (IF r.raised THEN {i} ELSE {})])

RECURSIVE notify_loop(_, _, _, _, _)
notify_loop(incidents, outcomes, i, t, acc) ==
    IF i > Len(incidents) THEN acc
    ELSE LET r == notify(incidents[i], outcomes[i], t)
             counted == /\ ~r.raised
                        /\ \/ Truthy(r.result.success)
                           \/ Truthy(r.result.sns)
                           \/ Truthy(r.result.ses)
             entry == IF counted
                      THEN <<[incident_id |-> incidents[i].incident_id,
                              priority |-> incidents[i].priority,
                              result |-> r.result]>>
                      ELSE <<>>
         IN  notify_loop(incidents, outcomes, i + 1, t,
                [out |-> acc.out \o entry,
                 incidents |-> [acc.incidents EXCEPT ![i] = r.incident],
                 offered |-> Append(acc.offered, incidents[i].incident_id),
                 calls |-> acc.calls \o [k \in 1..Len(r.calls) |->
                               <<incidents[i].incident_id, r.calls[k]>>],
                 raised |-> acc.raised \cup (IF r.raised THEN {i} ELSE {})])

RECURSIVE store_loop(_, _, _, _)
store_loop(incidents, outcomes, i, acc) ==
    IF i > Len(incidents) THEN acc
    ELSE store_loop(incidents, outcomes, i + 1,
            [out |-> acc.out \o (IF outcomes[i] = "True"
                                 THEN <<incidents[i].incident_id>> ELSE <<>>),
             incidents |-> acc.incidents,
             offered |-> Append(acc.offered, incidents[i].incident_id),
             calls |-> acc.calls,
             raised |-> acc.raised \cup (IF outcomes[i] = "raise" THEN {i} ELSE {})])

LoopStart(incidents) ==
    [out |-> <<>>, incidents |-> incidents, offered |-> <<>>, calls |-> <<>>,
     raised |-> {}]

\* _create_tickets_node, _notify_node, _store_node: the state each returns.
create_tickets_node(st, done) ==
    [st EXCEPT !.current_step = "create_tickets", !.tickets_created = done.out,
               !.incidents = done.incidents]

notify_node(st, done) ==
    [st EXCEPT !.current_step = "notify", !.notifications_sent = done.out,
               !.incidents = done.incidents]

store_node(st, done) ==
    [st EXCEPT !.current_step = "store", !.incidents_stored = done.out]

\* run(): the summary built from the final state.  No node lets an
\* exception escape, so ainvoke returns and the except branch is not taken.
run_summary_error_flag(final) ==
    [success |-> final.error = None,
     events_collected |-> Len(final.events),
     incidents_created |-> Len(final.incidents),
     tickets_created |-> final.tickets_created,
     notifications_sent |-> Len(final.notifications_sent),
     incidents_stored |-> Len(final.incidents_stored)]

run_summary(final) ==
    [success |-> TRUE,
     events_collected |-> Len(final.events),
     incidents_created |-> Len(final.incidents),
     tickets_created |-> final.tickets_created,
     notifications_sent |-> Len(final.notifications_sent),
     incidents_stored |-> Len(final.incidents_stored)]

(***************************************************************************)
(* Spec: cycles of run().  The collaborators answer from small sets: two   *)
(* events on one resource (an alarm and a metric breach), three verdicts   *)
(* of the assessing model, three replies of the classifying model.  All    *)
(* timestamps of a cycle are the one instant `now`.                        *)
(***************************************************************************)
EventA == [event_id |-> "a1", event_type |-> "alarm", resource_id |-> "i-123",
           description |-> <<"production">>]

EventM == [event_id |-> "m1", event_type |-> "metric", resource_id |-> "i-123",
           description |-> <<"down", SP, "Degraded">>]

CollectorChoices(c) ==
    {[raised |-> TRUE, events |-> <<>>], [raised |-> FALSE, events |-> <<>>]} \cup
    (CASE c = "alarms"  -> {[raised |-> FALSE, events |-> <<EventA>>]}
       [] c = "metrics" -> {[raised |-> FALSE, events |-> <<EventM>>]}
       [] OTHER         -> {})

CollectorResults ==
    {got \in [Range(Collectors) ->
                UNION {CollectorChoices(c) : c \in Range(Collectors)}] :
        \A c \in Range(Collectors) : got[c] \in CollectorChoices(c)}

CollectOutcomes ==
    {[raised |-> TRUE, events |-> <<>>]} \cup
    {[raised |-> FALSE, events |-> collect_all(got)] : got \in CollectorResults}

AIChoices == {[is_anomaly |-> "True", anomaly_score |-> 90, confidence |-> 80,
               category |-> "performance"],
              [is_anomaly |-> "True", anomaly_score |-> 40, confidence |-> 80,
               category |-> "unknown"],
              [is_anomaly |-> "False", anomaly_score |-> 20, confidence |-> 80,
               category |-> "unknown"]}

\* The replies of the assessing model for the events of one type.
TypeReplies(type_events) ==
    {[kind |-> "raise", analyses |-> <<>>]} \cup
    {[kind |-> "ok",
      analyses |-> [k \in 1..Len(type_events) |->
                      [event_id |-> type_events[k].event_id,
                       is_anomaly |-> c[k].is_anomaly,
                       anomaly_score |-> c[k].anomaly_score,
                       confidence |-> c[k].confidence,
                       category |-> c[k].category]]] :
        c \in [1..Len(type_events) -> AIChoices]}

AnalyzeReplies(events) ==
    {r \in [EventTypes(events) ->
              UNION {TypeReplies(SelectSeq(events, LAMBDA e : e.event_type = ty)) :
                        ty \in EventTypes(events)}] :
        \A ty \in EventTypes(events) :
            r[ty] \in TypeReplies(SelectSeq(events, LAMBDA e : e.event_type = ty))}

CycleResponses == {"P1", "P6", "raise", "bad_label"}

Stages == <<"collect", "retrieve_context", "analyze", "classify",
            "create_tickets", "notify", "store">>

NoOffers == [create_tickets |-> <<>>, notify |-> <<>>, store |-> <<>>,
             close |-> <<>>, send |-> <<>>]

\* Nothing asked of a collaborator yet; a stage's answer is kept as a
\* sequence of at most one value.
NoAnswers == [collect |-> <<>>, retrieve_context |-> <<>>, analyze |-> <<>>,
              classify |-> <<>>, create_tickets |-> <<>>, notify |-> <<>>,
              store |-> <<>>]

Init ==
    /\ pc = "idle"
    /\ state = initial_state
    /\ summary = <<>>
    /\ trace = <<>>
    /\ offers = NoOffers
    /\ raised = {}
    /\ answers = NoAnswers
    /\ IdleGroup /\ IdleClassify /\ IdleMerge /\ IdleAnalyze /\ IdleCycles /\ IdleRules
    /\ IdleIncident

otherVars == <<groupVars, classifyVars, mrg, anl, runs, clients, rul, incidentVars>>

\* run() is called: the initial state is written to the channels.
StartRun ==
    /\ pc \in {"idle", "returned"}
    /\ pc' = entry_point
    /\ state' = apply_update(initial_state, initial_state)
    /\ summary' = <<>>
    /\ trace' = <<>>
    /\ offers' = NoOffers
    /\ raised' = {}
    /\ answers' = NoAnswers
    /\ UNCHANGED otherVars

Collect ==
    /\ pc = "collect"
    /\ \E outcome \in CollectOutcomes :
          /\ state' = apply_update(state, collect_node(state, outcome))
          /\ raised' = raised \cup (IF outcome.raised THEN {<<"collect", 0>>} ELSE {})
          /\ answers' = [answers EXCEPT !.collect = <<outcome>>]
    /\ pc' = edge("collect")
    /\ trace' = Append(trace, "collect")
    /\ UNCHANGED <<summary, offers, otherVars>>

RetrieveContext ==
    /\ pc = "retrieve_context"
    /\ \E outcome \in IF state.events = <<>> THEN {"ok"}
                      ELSE {"ok", "runbooks_raise", "similar_raise"} :
          /\ state' = apply_update(state, retrieve_context_node(state, outcome))
          /\ raised' = raised \cup
                (IF outcome # "ok" THEN {<<"retrieve_context", 0>>} ELSE {})
          /\ answers' = [answers EXCEPT !.retrieve_context = <<outcome>>]
    /\ pc' = edge("retrieve_context")
    /\ trace' = Append(trace, "retrieve_context")
    /\ UNCHANGED <<summary, offers, otherVars>>

Analyze ==
    /\ pc = "analyze"
    /\ \E outcome \in
            IF state.events = <<>> THEN {[raised |-> FALSE, replies |-> <<>>]}
            ELSE {[raised |-> TRUE, replies |-> <<>>]} \cup
                 {[raised |-> FALSE, replies |-> r] : r \in AnalyzeReplies(state.events)} :
          /\ state' = apply_update(state, analyze_node(state, outcome))
          /\ raised' = raised \cup (IF outcome.raised THEN {<<"analyze", 0>>} ELSE {})
          /\ answers' = [answers EXCEPT !.analyze = <<outcome>>]
    /\ pc' = edge("analyze")
    /\ trace' = Append(trace, "analyze")
    /\ UNCHANGED <<summary, offers, otherVars>>

ClassifyNode ==
    /\ pc = "classify"
    /\ \E outcome \in
            IF state.analyzed_events = <<>>
            THEN {[raised |-> FALSE, responses |-> <<>>]}
            ELSE {[raised |-> TRUE, responses |-> <<>>]} \cup
                 {[raised |-> FALSE, responses |-> r] :
                    r \in [1..Len(group_into_incidents(state.analyzed_events)) ->
                             CycleResponses]} :
          /\ state' = apply_update(state, classify_node(state, outcome, now))
          /\ raised' = raised \cup (IF outcome.raised THEN {<<"classify", 0>>} ELSE {})
          /\ answers' = [answers EXCEPT !.classify = <<outcome>>]
    /\ pc' = edge("classify")
    /\ trace' = Append(trace, "classify")
    /\ UNCHANGED <<summary, offers, otherVars>>

AllTicketOutcomes == {"http_error", "raise", "created", "comment_raise",
                      "close_raise", "close_failed"}

CreateTickets ==
    /\ pc = "create_tickets"
    /\ \E outcomes \in [1..Len(state.incidents) -> AllTicketOutcomes] :
          /\ \A i \in 1..Len(state.incidents) :
                outcomes[i] \in TicketOutcomes(state.incidents[i])
          /\ LET done == tickets_loop(state.incidents, outcomes, 1, now,
                                      LoopStart(state.incidents))
             IN  /\ state' = apply_update(state, create_tickets_node(state, done))
                 /\ offers' = [offers EXCEPT !.create_tickets = done.offered,
                                             !.close = done.calls]
                 /\ raised' = raised \cup {<<"create_tickets", i>> : i \in done.raised}
                 /\ answers' = [answers EXCEPT !.create_tickets = <<outcomes>>]
    /\ pc' = edge("create_tickets")
    /\ trace' = Append(trace, "create_tickets")
    /\ UNCHANGED <<summary, otherVars>>

Notify ==
    /\ pc = "notify"
    /\ \E outcomes \in [1..Len(state.incidents) -> NotifyOutcomes] :
          LET done == notify_loop(state.incidents, outcomes, 1, now,
                                  LoopStart(state.incidents))
          IN  /\ state' = apply_update(state, notify_node(state, done))
              /\ offers' = [offers EXCEPT !.notify = done.offered,
                                          !.send = done.calls]
              /\ raised' = raised \cup {<<"notify", i>> : i \in done.raised}
              /\ answers' = [answers EXCEPT !.notify = <<outcomes>>]
    /\ pc' = edge("notify")
    /\ trace' = Append(trace, "notify")
    /\ UNCHANGED <<summary, otherVars>>

Store ==
    /\ pc = "store"
    /\ \E outcomes \in [1..Len(state.incidents) -> StoreOutcomes] :
          LET done == store_loop(state.incidents, outcomes, 1,
                                 LoopStart(state.incidents))
          IN  /\ state' = apply_update(state, store_node(state, done))
              /\ offers' = [offers EXCEPT !.store = done.offered]
              /\ raised' = raised \cup {<<"store", i>> : i \in done.raised}
              /\ answers' = [answers EXCEPT !.store = <<outcomes>>]
    /\ pc' = edge("store")
    /\ trace' = Append(trace, "store")
    /\ UNCHANGED <<summary, otherVars>>

\* ainvoke has returned the final state: run() returns the summary.
Return ==
    /\ pc = "END"
    /\ summary' = <<run_summary(state)>>
    /\ pc' = "returned"
    /\ UNCHANGED <<state, trace, offers, raised, answers, otherVars>>

Next == \/ StartRun \/ Collect \/ RetrieveContext \/ Analyze \/ ClassifyNode
        \/ CreateTickets \/ Notify \/ Store \/ Return

Spec == Init /\ [][Next]_vars

Ids(incidents) == [k \in 1..Len(incidents) |-> incidents[k].incident_id]

Ran(stage) == stage \in Range(trace)

\* What C7 asks of every state of a cycle: a stage whose collaborator call
\* raised has left its empty default, an incident whose call raised has left
\* no entry in the stage's list, and a returned cycle has run all seven
\* stages and reports success.
C7_Defaults ==
    /\ <<"collect", 0>> \in raised => state.events = <<>>
    /\ <<"retrieve_context", 0>> \in raised =>
            state.runbooks = <<>> /\ state.similar_incidents = <<>>
    /\ <<"analyze", 0>> \in raised => state.analyzed_events = <<>>
    /\ <<"classify", 0>> \in raised => state.incidents = <<>>
    /\ \A i \in 1..Len(state.incidents) :
         /\ <<"create_tickets", i>> \in raised =>
               \A k \in 1..Len(state.tickets_created) :
                  state.tickets_created[k].incident_id # state.incidents[i].incident_id
         /\ <<"notify", i>> \in raised =>
               \A k \in 1..Len(state.notifications_sent) :
                  state.notifications_sent[k].incident_id # state.incidents[i].incident_id
         /\ <<"store", i>> \in raised =>
               \A k \in 1..Len(state.incidents_stored) :
                  state.incidents_stored[k] # state.incidents[i].incident_id
    /\ pc = "returned" =>
         /\ \A k \in 1..Len(Stages) : Ran(Stages[k])
         /\ Len(summary) = 1
         /\ summary[1].success = TRUE

\* C7: whatever subset of the collaborator calls raises during a cycle, every
\* one of the seven stages still executes, a stage whose call raised leaves
\* its empty default as output, and run() returns a summary whose success is
\* true (no stage ends the cycle: the only way out of a stage is its edge).
C7_CycleSurvivesFailures ==
    /\ C7_Defaults
    /\ pc \in {"idle", "returned", "END"} \cup Range(Stages)
    /\ pc \in Range(Stages) => ~Ran(pc)
    /\ pc = "END" => trace = Stages

C7_Witness ==
    /\ pc = "returned"
    /\ <<"retrieve_context", 0>> \in raised
    /\ \E i \in 1..Len(state.incidents) :
          {<<"create_tickets", i>>, <<"notify", i>>, <<"store", i>>} \subseteq raised

\* C8: when collect_all() raises, the summary run() returns has success true,
\* events_collected 0, incidents_created 0, tickets_created empty,
\* notifications_sent 0 and incidents_stored 0.
C8_CollectionFailureSummary ==
    (pc = "returned" /\ <<"collect", 0>> \in raised) =>
        summary = <<[success |-> TRUE, events_collected |-> 0,
                     incidents_created |-> 0, tickets_created |-> <<>>,
                     notifications_sent |-> 0, incidents_stored |-> 0]>>

C8_Witness == pc = "returned" /\ <<"collect", 0>> \in raised /\ Len(summary) = 1

\* C9: the stages of a cycle run once each in the fixed order (the stages run
\* so far are always a prefix of the order, and a returned cycle has run all
\* seven), and create_ticket is only called, after classify has run, on an
\* incident of the list classify returned, with a priority and status
\* classified.
C9_FixedOrder ==
    /\ Len(trace) <= Len(Stages)
    /\ trace = SubSeq(Stages, 1, Len(trace))
    /\ pc = "returned" => trace = Stages
    /\ offers.create_tickets # <<>> => trace[4] = "classify" /\ trace[3] = "analyze"
    /\ \A k \in 1..Len(offers.create_tickets) :
          /\ offers.create_tickets[k].status = "classified"
          /\ offers.create_tickets[k].priority \in Priority
          /\ offers.create_tickets[k].incident_id \in Range(Ids(state.incidents))

C9_Witness ==
    /\ pc = "returned"
    /\ Len(offers.create_tickets) = 2
    /\ state.incidents[1].status = "ticket_created"

\* C10: each of create_tickets, notify and store, once it has run, has handed
\* every incident classify returned to its collaborator exactly once, in
\* order, whatever calls raised or returned a failure for other incidents or
\* in earlier stages.
C10_EveryIncidentOffered ==
    /\ Ran("create_tickets") =>
          [k \in 1..Len(offers.create_tickets) |->
              offers.create_tickets[k].incident_id] = Ids(state.incidents)
    /\ Ran("notify") => offers.notify = Ids(state.incidents)
    /\ Ran("store") => offers.store = Ids(state.incidents)
    /\ \A i, j \in 1..Len(state.incidents) :
          i # j => state.incidents[i].incident_id # state.incidents[j].incident_id

C10_Witness ==
    /\ pc = "returned"
    /\ Len(state.incidents) = 2
    /\ {<<"create_tickets", 1>>, <<"notify", 1>>, <<"store", 1>>} \subseteq raised
    /\ Len(state.tickets_created) > 0
    /\ Len(state.incidents_stored) > 0

\* The answer the collaborator of a per-incident stage gave for incident i.
Answer(stage, i) == answers[stage][1][i]

\* The incidents (positions) with an entry in an accumulator.
TicketEntries(i) ==
    {k \in 1..Len(state.tickets_created) :
        state.tickets_created[k].incident_id = state.incidents[i].incident_id}

NotificationEntries(i) ==
    {k \in 1..Len(state.notifications_sent) :
        state.notifications_sent[k].incident_id = state.incidents[i].incident_id}

StoredEntries(i) ==
    {k \in 1..Len(state.incidents_stored) :
        state.incidents_stored[k] = state.incidents[i].incident_id}

\* notify succeeded for incident i: nothing had to be sent, or the sends
\* went through.
NotifySucceeded(i) ==
    \/ notification_channels[state.incidents[i].priority] = <<>>
    \/ Answer("notify", i) = "sent"

\* C11: an accumulator holds an entry for an incident only if the stage's
\* operation succeeded for it; an incident all of whose attempted sends
\* failed has no entry in notifications_sent and is not counted in the
\* summary.
C11_OnlySuccessesRecorded ==
    \A i \in 1..Len(state.incidents) :
        /\ (Ran("create_tickets") /\ TicketEntries(i) # {}) =>
                Answer("create_tickets", i) = "created"
        /\ (Ran("notify") /\ NotificationEntries(i) # {}) => NotifySucceeded(i)
        /\ (Ran("store") /\ StoredEntries(i) # {}) => Answer("store", i) = "True"
        /\ (pc = "returned" /\ Len(state.incidents) = 1 /\ ~NotifySucceeded(i)) =>
                summary[1].notifications_sent = 0

\* _close_ticket was called for incident i.
CloseIssued(i) == <<state.incidents[i].incident_id, "close">> \in Range(offers.close)

SendsFor(i) ==
    {k \in 1..Len(offers.send) : offers.send[k][1] = state.incidents[i].incident_id}

\* C14: for an incident whose priority has an empty channel list, the notify
\* stage sends on no channel and records for the incident a notification
\* entry whose channels are the empty list.
C14_EmptyChannelsRecorded ==
    Ran("notify") =>
        \A i \in 1..Len(state.incidents) :
            notification_channels[state.incidents[i].priority] = <<>> =>
                /\ SendsFor(i) = {}
                /\ \E k \in 1..Len(state.incidents[i].notifications_sent) :
                      state.incidents[i].notifications_sent[k].channels = <<>>

(***************************************************************************)
(* SpecGroup: _group_into_incidents applied to every list of analyzed      *)
(* events of at most MaxAssessments entries.  The entries are built as     *)
(* AnomalyDetector builds them: the event is CloudWatchEvent.to_dict(),    *)
(* which always carries the key resource_id (None when the event has no    *)
(* resource), and is_anomaly is absent on the error path of analyze_events.*)
(***************************************************************************)

GroupResources == {None, "None", "i-123"}

GroupAssessments ==
    {[event |-> [event_id |-> "e", resource_id |-> r, description |-> <<>>],
      anomaly_score |-> s, category |-> c, is_anomaly |-> a] :
        r \in GroupResources, s \in {49, 50}, c \in {"performance", "unknown"},
        a \in {"True", "False", NoKey}}


InitGroup ==
    /\ analyzed_in \in SeqsUpTo(GroupAssessments, MaxAssessments)
    /\ groups_out = <<>>
    /\ gphase = "input"
    /\ incidents_out = <<>>
    /\ IdleClassify /\ IdleMerge /\ IdleAnalyze /\ IdleCycles /\ IdleRules /\ IdleIncident /\ IdleCycle

GroupIntoIncidents ==
    /\ gphase = "input"
    /\ groups_out' = group_into_incidents(analyzed_in)
    /\ gphase' = "grouped"
    /\ UNCHANGED <<analyzed_in, incidents_out, classifyVars, mrg, anl, runs, clients, rul, incidentVars,
                   cycleVars>>

\* The rest of classify() without the AI refinement: one incident per group.
CreateIncidents ==
    /\ gphase = "grouped"
    /\ incidents_out' = classify(analyzed_in, FALSE,
                                 [g \in 1..Len(groups_out) |-> "unused"], 0)
    /\ gphase' = "created"
    /\ UNCHANGED <<analyzed_in, groups_out, classifyVars, mrg, anl, runs, clients, rul, incidentVars,
                   cycleVars>>

NextGroup == GroupIntoIncidents \/ CreateIncidents

SpecGroup == InitGroup /\ [][NextGroup]_vars

\* The places (group, position in group) of the result that hold entry i.
PlacesOf(i) == {gk \in {<<g, k>> : g \in 1..Len(groups_out), k \in 1..MaxAssessments + 1} :
                  /\ gk[2] <= Len(groups_out[gk[1]])
                  /\ groups_out[gk[1]][gk[2]] = i}

\* The promotion filter as the claim states it.
ClaimFilter(e) == e.is_anomaly = "True" \/ e.anomaly_score >= 50

\* C1: every entry that passes the promotion filter is in exactly one group,
\* every entry that fails it is in none, no group is empty, and an empty input
\* gives an empty output.
C1_Partition ==
    gphase \in {"grouped", "created"} =>
        /\ \A i \in 1..Len(analyzed_in) :
              Cardinality(PlacesOf(i)) = IF ClaimFilter(analyzed_in[i]) THEN 1 ELSE 0
        /\ \A g \in 1..Len(groups_out) : groups_out[g] # <<>>
        /\ \A g \in 1..Len(groups_out) : Range(groups_out[g]) \subseteq 1..Len(analyzed_in)
        /\ (analyzed_in = <<>> => groups_out = <<>>)

\* C1 witness: a grouped list in which one entry was promoted and one dropped.
C1_Witness ==
    /\ gphase \in {"grouped", "created"}
    /\ groups_out # <<>>
    /\ \E i, j \in 1..Len(analyzed_in) :
          ClaimFilter(analyzed_in[i]) /\ ~ClaimFilter(analyzed_in[j])

SameGroup(i, j) == \E g \in 1..Len(groups_out) : {i, j} \subseteq Range(groups_out[g])

\* The resource of an entry as the claim reads it: missing counts as "unknown".
ResourceOrUnknown(e) == IF e.event.resource_id \in {None, NoKey} THEN "unknown"
                        ELSE e.event.resource_id

\* C2: two promoted entries are in the same group if and only if they have the
\* same category and the same resource id, a missing resource id counting as
\* the single value "unknown".
C2_SameGroupIffSameKey ==
    gphase \in {"grouped", "created"} =>
        \A i, j \in 1..Len(analyzed_in) :
            (ClaimFilter(analyzed_in[i]) /\ ClaimFilter(analyzed_in[j])) =>
                (SameGroup(i, j) <=>
                    /\ analyzed_in[i].category = analyzed_in[j].category
                    /\ ResourceOrUnknown(analyzed_in[i]) = ResourceOrUnknown(analyzed_in[j]))

\* The promoted entries that share category and resource id with entry i.
Mates(i) ==
    {j \in 1..Len(analyzed_in) :
        /\ ClaimFilter(analyzed_in[j])
        /\ analyzed_in[j].category = analyzed_in[i].category
        /\ analyzed_in[j].event.resource_id = analyzed_in[i].event.resource_id}

\* The incidents whose source events include entry i.
IncidentsOf(i) == {g \in 1..Len(groups_out) : i \in Range(groups_out[g])}

\* C16: the promoted entries that share one category and one resource id
\* yield exactly one incident; its event_count is the number of those entries
\* and its anomaly_score is the maximum of their scores.
C16_OneIncidentPerKey ==
    gphase = "created" =>
        /\ Len(incidents_out) = Len(groups_out)
        /\ \A i \in 1..Len(analyzed_in) :
              ClaimFilter(analyzed_in[i]) =>
                  /\ Cardinality(IncidentsOf(i)) = 1
                  /\ \A g \in IncidentsOf(i) :
                        /\ Mates(i) \subseteq Range(groups_out[g])
                        /\ incidents_out[g].event_count = Cardinality(Mates(i))
                        /\ incidents_out[g].anomaly_score =
                              Max({analyzed_in[j].anomaly_score : j \in Mates(i)})

\* The assessment of every event type of the cycle raised.
AllAssessmentsRaised ==
    /\ Ran("analyze") /\ state.events # <<>>
    /\ ~answers.analyze[1].raised
    /\ \A ty \in EventTypes(state.events) :
          answers.analyze[1].replies[ty].kind = "raise"

\* C18: if the assessment call raises for every event of a cycle that
\* collected at least one event, every collected event is still promoted past
\* the correlation filter and, unless the classification stage itself fails,
\* the cycle produces at least one incident, each event being a source event
\* of some incident.
C18_AllRaisedStillIncident ==
    AllAssessmentsRaised =>
        /\ \A j \in 1..Len(state.events) :
              \E k \in 1..Len(state.analyzed_events) :
                 /\ state.analyzed_events[k].event = to_dict(state.events[j])
                 /\ ClaimFilter(state.analyzed_events[k])
        /\ (Ran("classify") /\ <<"classify", 0>> \notin raised) =>
              /\ Len(state.incidents) >= 1
              /\ \A j \in 1..Len(state.events) :
                    \E i \in 1..Len(state.incidents) :
                       to_dict(state.events[j]) \in Range(state.incidents[i].source_events)
              /\ pc = "returned" => summary[1].incidents_created >= 1

C18_Witness ==
    /\ pc = "returned"
    /\ AllAssessmentsRaised
    /\ Len(state.events) = 2
    /\ <<"classify", 0>> \notin raised
    /\ summary[1].incidents_created >= 1

\* The groups of the cycle and the replies of the classifying model.
CycleGroups == group_into_incidents(state.analyzed_events)

CycleGroup(g) == GroupMembers(state.analyzed_events, CycleGroups[g])

ClassifyReply(g) == answers.classify[1].responses[g]

\* C20: if the AI classification of a group raises or returns an invalid
\* label, the AI opinion for the group is P4 (the incident's priority is the
\* more severe of the rule priority and P4), classify does not raise, and an
\* incident is produced for that group and for every other group.
C20_FailedOpinionIsP4 ==
    (Ran("classify") /\ <<"classify", 0>> \notin raised) =>
        /\ Len(state.incidents) = Len(CycleGroups)
        /\ \A g \in 1..Len(CycleGroups) :
              /\ state.incidents[g].source_events =
                    [k \in 1..Len(CycleGroup(g)) |-> CycleGroup(g)[k].event]
              /\ ClassifyReply(g) \notin Priority =>
                    ClaimRank(state.incidents[g].priority) =
                        IF ClaimRank(rule_based_classification(CycleGroup(g))) < 4
                        THEN ClaimRank(rule_based_classification(CycleGroup(g)))
                        ELSE 4

C20_Witness ==
    /\ pc = "returned"
    /\ <<"classify", 0>> \notin raised
    /\ Len(state.incidents) = 2
    /\ ClassifyReply(1) = "bad_label" /\ ClassifyReply(2) = "P1"
    /\ rule_based_classification(CycleGroup(1)) = "P5"
    /\ state.incidents[1].priority = "P4"
    /\ state.incidents[2].priority = "P1"

(***************************************************************************)
(* SpecCycles: the shared agent with two callers of run(): the loop of     *)
(* run_continuous and a /collect request.  Each call of run() builds its   *)
(* own initial_state and hands it to ainvoke; the agent object holds only  *)
(* the lazily created client handles.  The calls interleave at the stages, *)
(* where the collaborators are awaited.                                    *)
(***************************************************************************)
Callers == {"loop", "request"}

\* The state run() gives to ainvoke.  `previous` is the final state of the
\* caller's previous call, which run() does not see: initial_state is a local
\* built anew.
run_initial_state_carried(previous) == apply_update(previous, initial_state)

run_initial_state(previous) == apply_update(initial_state, initial_state)

\* The answers the collaborators give a stage of one call.
StageAnswers(st, stage) ==
    CASE stage = "collect" ->
            {[raised |-> TRUE, events |-> <<>>],
             [raised |-> FALSE, events |-> <<EventA>>]}
      [] stage = "retrieve_context" -> {"ok"}
      [] stage = "analyze" ->
            IF st.events = <<>> THEN {[raised |-> FALSE, replies |-> <<>>]}
            ELSE {[raised |-> FALSE, replies |-> r] :
                    r \in {q \in AnalyzeReplies(st.events) :
                             \A ty \in DOMAIN q :
                                \/ q[ty].kind = "raise"
                                \/ \A k \in 1..Len(q[ty].analyses) :
                                      q[ty].analyses[k].anomaly_score = 90}}
      [] stage = "classify" ->
            IF st.analyzed_events = <<>> THEN {[raised |-> FALSE, responses |-> <<>>]}
            ELSE {[raised |-> FALSE, responses |-> r] :
                    r \in [1..Len(group_into_incidents(st.analyzed_events)) ->
                             {"P1", "raise"}]}
      [] stage = "create_tickets" -> [1..Len(st.incidents) -> {"created", "raise"}]
      [] stage = "notify" -> [1..Len(st.incidents) -> {"sent"}]
      [] stage = "store" -> [1..Len(st.incidents) -> {"True"}]

\* The channels after a stage has run on them with the given answer.
StageResult(st, stage, a, t) ==
    CASE stage = "collect" -> apply_update(st, collect_node(st, a))
      [] stage = "retrieve_context" -> apply_update(st, retrieve_context_node(st, a))
      [] stage = "analyze" -> apply_update(st, analyze_node(st, a))
      [] stage = "classify" -> apply_update(st, classify_node(st, a, t))
      [] stage = "create_tickets" ->
            apply_update(st, create_tickets_node(st,
                tickets_loop(st.incidents, a, 1, t, LoopStart(st.incidents))))
      [] stage = "notify" ->
            apply_update(st, notify_node(st,
                notify_loop(st.incidents, a, 1, t, LoopStart(st.incidents))))
      [] stage = "store" ->
            apply_update(st, store_node(st,
                store_loop(st.incidents, a, 1, LoopStart(st.incidents))))

\* The client handle a stage creates on the agent when it is first used.
StageClient(stage) ==
    CASE stage = "collect" -> {"cloudwatch"}
      [] stage = "retrieve_context" -> {"opensearch"}
      [] stage = "analyze" -> {"bedrock-anomaly"}
      [] stage = "classify" -> {"bedrock-classifier"}
      [] stage = "create_tickets" -> {}
      [] stage = "notify" -> {"sns", "ses"}
      [] stage = "store" -> {"opensearch"}

\* How a finished cycle went: "degraded" when nothing was collected.
cycle_outcome(summ) ==
    IF ~summ.success THEN "raised"
    ELSE IF summ.events_collected = 0 THEN "degraded" ELSE "succeeded"

\* run_continuous after a cycle: the sleep follows the try statement, whatever
\* the cycle returned.
after_cycle_stops_degraded(outcome) ==
    IF outcome = "succeeded" THEN "sleeping" ELSE "stopped"

after_cycle(outcome) == "sleeping"

NewCall == [pc |-> "idle", state |-> initial_state, summary |-> <<>>,
            answers |-> NoAnswers, last |-> "none"]

InitCycles ==
    /\ runs = [c \in Callers |-> NewCall]
    /\ clients = {}
    /\ IdleRules /\ IdleGroup /\ IdleClassify /\ IdleMerge /\ IdleAnalyze /\ IdleIncident
    /\ IdleCycle

cyclesOther == <<groupVars, classifyVars, mrg, anl, rul, incidentVars, cycleVars>>

\* run() is called: by the loop at its start and after each sleep, by a
\* request at any time no request is being served.
RunStart(c) ==
    /\ \/ runs[c].pc = "idle"
       \/ c = "request" /\ runs[c].pc = "returned"
       \/ c = "loop" /\ runs[c].pc = "sleeping"
    /\ runs' = [runs EXCEPT ![c].pc = entry_point,
                            ![c].state = run_initial_state(runs[c].state),
                            ![c].summary = <<>>,
                            ![c].answers = NoAnswers]
    /\ UNCHANGED <<clients, cyclesOther>>

\* One stage of one call runs; the other call keeps its state.
RunStage(c) ==
    /\ runs[c].pc \in Range(Stages)
    /\ \E a \in StageAnswers(runs[c].state, runs[c].pc) :
          runs' = [runs EXCEPT
                     ![c].state = StageResult(runs[c].state, runs[c].pc, a, now),
                     ![c].answers = [runs[c].answers EXCEPT ![runs[c].pc] = <<a>>],
                     ![c].pc = edge(runs[c].pc)]
    /\ clients' = clients \cup StageClient(runs[c].pc)
    /\ UNCHANGED cyclesOther

RunReturn(c) ==
    /\ runs[c].pc = "END"
    /\ runs' = [runs EXCEPT ![c].summary = <<run_summary(runs[c].state)>>,
                            ![c].pc = "returned"]
    /\ UNCHANGED <<clients, cyclesOther>>

\* run_continuous: the cycle is over, the loop sleeps the interval.
Sleep ==
    /\ runs["loop"].pc = "returned"
    /\ runs' = [runs EXCEPT
                  !["loop"].pc = after_cycle(cycle_outcome(runs["loop"].summary[1])),
                  !["loop"].last = cycle_outcome(runs["loop"].summary[1])]
    /\ UNCHANGED <<clients, cyclesOther>>

LoopStep == RunStart("loop") \/ RunStage("loop") \/ RunReturn("loop") \/ Sleep

RequestStep == RunStart("request") \/ RunStage("request") \/ RunReturn("request")

NextCycles == LoopStep \/ RequestStep

SpecCycles == InitCycles /\ [][NextCycles]_vars

\* Continuous mode on its own: no request arrives, every collaborator call
\* of the loop returns and the sleep ends.
FairLoop == InitCycles /\ [][LoopStep]_vars /\ WF_vars(LoopStep)

\* The final channels of a call that runs alone from the empty state and gets
\* the answers ans, stage k onward.
RECURSIVE RunAlone(_, _, _)
RunAlone(st, k, ans) ==
    IF k > Len(Stages) THEN st
    ELSE RunAlone(StageResult(st, Stages[k], ans[Stages[k]][1], now), k + 1, ans)

\* C23: every run() starts from empty events, incidents and accumulators, and
\* the summary it returns is the one the answers of its own cycle give a call
\* that runs alone on a fresh agent: neither the caller's previous cycle nor
\* the other call, interleaved at the stages, changes it.
C23_CyclesIndependent ==
    \A c \in Callers :
        /\ runs[c].pc = entry_point =>
              /\ runs[c].state.events = <<>>
              /\ runs[c].state.incidents = <<>>
              /\ runs[c].state.tickets_created = <<>>
              /\ runs[c].state.notifications_sent = <<>>
              /\ runs[c].state.incidents_stored = <<>>
        /\ runs[c].pc = "returned" =>
              runs[c].summary = <<run_summary(RunAlone(initial_state, 1, runs[c].answers))>>

\* C23 witness: the loop's previous cycle collected an event, its present
\* cycle collected nothing and returned an empty summary, while a request is
\* half way through a cycle with an incident.
C23_Witness ==
    /\ runs["loop"].last = "succeeded"
    /\ runs["loop"].pc = "returned"
    /\ runs["loop"].summary[1].events_collected = 0
    /\ runs["loop"].summary[1].tickets_created = <<>>
    /\ runs["request"].pc = "notify"
    /\ Len(runs["request"].state.tickets_created) > 0
    /\ "cloudwatch" \in clients

\* C24: in continuous mode, when every awaited call returns, the loop starts
\* cycles forever and never stops, whatever the cycles before returned.
C24_LoopNeverStops ==
    /\ []<>(runs["loop"].pc = entry_point)
    /\ [](runs["loop"].pc # "stopped")

\* C24 witness: a cycle is started after a cycle that collected nothing.
C24_Witness ==
    /\ runs["loop"].last = "degraded"
    /\ runs["loop"].pc = entry_point

\* C25: the category-weighting step pulls the priority at most one step more
\* severe than the priority of the score-threshold table for the same score.
C25_WeightingOneStep ==
    rul.phase = "done" =>
        ClaimRank(rul.base) - ClaimRank(rul.weighted) \in {0, 1}

\* The default table as the claim states it, scores in hundredths.
ClaimTable(s) ==
    IF s >= 95 THEN "P1" ELSE IF s >= 85 THEN "P2" ELSE IF s >= 70 THEN "P3"
    ELSE IF s >= 50 THEN "P4" ELSE IF s >= 30 THEN "P5" ELSE "P6"

\* C26: the score-threshold step maps the maximum score s to P1 for
\* s >= 0.95, P2 for 0.85 <= s < 0.95, P3 for 0.70 <= s < 0.85, P4 for
\* 0.50 <= s < 0.70, P5 for 0.30 <= s < 0.50 and P6 below 0.30.
C26_ThresholdTable ==
    rul.phase = "done" => rul.base = ClaimTable(rul.max_score)

\* C26 witness: a score exactly on a threshold gets that threshold's priority.
C26_Witness ==
    /\ rul.phase = "done"
    /\ rul.max_score = 85
    /\ rul.base = "P2"

\* C27: at the end of a cycle each of tickets_created, notifications_sent and
\* incidents_stored holds at most one entry per incident of the cycle, so each
\* of the three counts is at most incidents_created.
C27_OneEntryPerIncident ==
    pc = "returned" =>
        /\ \A i \in 1..Len(state.incidents) :
              /\ Cardinality(TicketEntries(i)) <= 1
              /\ Cardinality(NotificationEntries(i)) <= 1
              /\ Cardinality(StoredEntries(i)) <= 1
        /\ Len(summary[1].tickets_created) <= summary[1].incidents_created
        /\ summary[1].notifications_sent <= summary[1].incidents_created
        /\ summary[1].incidents_stored <= summary[1].incidents_created

\* C28: at the end of a cycle an incident has status ticket_created with a
\* recorded ticket key if and only if tickets_created holds an entry for it.
C28_TicketedIffReported ==
    pc = "returned" =>
        \A i \in 1..Len(state.incidents) :
            (/\ state.incidents[i].status = "ticket_created"
             /\ state.incidents[i].jira_ticket_key # None)
            <=> TicketEntries(i) # {}

\* C29: a tickets_created entry reports auto_closed = true only if the ticket
\* system accepted the close of that ticket.
C29_AutoClosedMeansClosed ==
    Ran("create_tickets") =>
        \A i \in 1..Len(state.incidents) :
            \A k \in TicketEntries(i) :
                state.tickets_created[k].auto_closed =>
                    Answer("create_tickets", i) = "created"

\* C30: every incident classify returns has status classified, and during a
\* cycle the only status change is classified -> ticket_created, made when
\* the ticket system has created the ticket: no incident reaches notified,
\* resolved or closed, even when it was notified or its ticket auto-closed.
C30_CycleStatuses ==
    \A i \in 1..Len(state.incidents) :
        /\ state.incidents[i].status \in {"classified", "ticket_created"}
        /\ ~Ran("create_tickets") => state.incidents[i].status = "classified"
        /\ Ran("create_tickets") =>
              (state.incidents[i].status = "ticket_created" <=>
                  Answer("create_tickets", i) \notin {"http_error", "raise"})

\* C30 witness: a returned cycle with an incident that was notified and whose
\* ticket is reported auto-closed; its status is ticket_created.
C30_Witness ==
    /\ pc = "returned"
    /\ Len(state.incidents) = 2
    /\ state.incidents[1].status = "ticket_created"
    /\ state.incidents[1].notifications_sent # <<>>
    /\ \E k \in TicketEntries(1) : state.tickets_created[k].auto_closed
    /\ state.incidents[2].status = "classified"

====
